---- MODULE Spec2Model ----
(***************************************************************************)
(* coreping (src/main.rs): two threads pinned to two cores alternate       *)
(* increments of two shared atomic counters S1 and S2 until S1 reaches     *)
(* ITERATIONS or a wall-clock deadline is observed; the main thread then   *)
(* reports elapsed time and throughput.                                    *)
(*                                                                         *)
(* One action per atomic step of each thread.  The main thread is the      *)
(* initiator (fn main), the spawned thread the responder (fn run_thread).  *)
(* mpc / wpc are the threads' positions in the code.                       *)
(*                                                                         *)
(* Scaling.  The source runs 500_000_000 rounds against a nanosecond       *)
(* clock.  The model keeps the same program with the target, the number of *)
(* clock units per second and the cost of a fetch_add scaled down          *)
(* together: a sequentially consistent fetch_add takes FetchAddTicks clock *)
(* units (on the hardware it takes several nanoseconds, the clock unit     *)
(* being one), every other step takes any time >= 0 (action Tick).         *)
(* u64/u128 arithmetic never wraps for counters <= ITERATIONS, so plain    *)
(* integers are used.                                                      *)
(***************************************************************************)
EXTENDS Integers, Sequences, FiniteSets, TLC

\* ---- bounds of the model ------------------------------------------------
\* target iteration count used for ITERATIONS (500_000_000 in the source)
TargetBound == 3
\* clock units per second (1_000_000_000 in the source)
NanosPerSec == 8
\* largest <timeout_seconds> argument tried
MaxTimeoutSecs == 2
\* clock units a SeqCst fetch_add takes at least
FetchAddTicks == 2
\* how far past the deadline the free-running clock is followed
MaxOvershoot == 2

\* ---- program constants --------------------------------------------------
ITERATIONS == TargetBound

\* args.len() values tried: program name + 2 or 3 arguments
ArgLens == {3, 4}

\* return values of sched_setaffinity / pthread_setaffinity_np tried
AffinityRets == {0, 22}

\* exit status of a Rust panic in the main thread
PanicCode == 101

VARIABLES
    args_len,       \* args.len()
    timeout_secs,   \* parsed args[3]
    mpc,            \* main thread position
    wpc,            \* worker thread position
    S1, S2,         \* the shared counters
    m_local_val,    \* main's local_val
    w_local_val,    \* run_thread's local_val
    m_seen_S2,      \* newest S2 value main has observed (coherence floor)
    w_seen_S1,      \* newest S1 value the worker has observed
    now,            \* the monotonic clock
    timeout,        \* the deadline Instant (line 85)
    start,          \* Instant taken at line 102
    nanos,          \* start.elapsed().as_nanos()
    final_s1, final_s2,
    actual_ops,
    loop_exit,      \* how main left the while loop
    output,         \* lines written to stdout/stderr, in order
    exit_code       \* process exit status, meaningful once mpc = "exited"

vars == <<args_len, timeout_secs, mpc, wpc, S1, S2, m_local_val, w_local_val,
          m_seen_S2, w_seen_S1, now, timeout, start, nanos, final_s1,
          final_s2, actual_ops, loop_exit, output, exit_code>>

\* variables grouped for UNCHANGED
counters == <<S1, S2>>
mainLocals == <<m_local_val, m_seen_S2, start, nanos, final_s1, final_s2,
                actual_ops, loop_exit>>
workerVars == <<wpc, w_local_val, w_seen_S1>>
config == <<args_len, timeout_secs, timeout>>

\* value meaning "not yet assigned"
Unset == -1

Line(tag, a, b) == [tag |-> tag, a |-> a, b |-> b]

Emit(tag, a, b) == output' = Append(output, Line(tag, a, b))

Exited == mpc = "exited"

\* process::exit(code) / return from main / panic in main: the process ends
\* and the worker thread is reclaimed with it
Exit(code) ==
    /\ mpc' = "exited"
    /\ exit_code' = code

\* A Relaxed load of another thread's counter returns some value of its
\* modification order no older than the newest this thread has seen
RelaxedLoad(seen, cur) == seen .. cur

\* Instant::now() >= timeout  (lines 107, 114)
MainExpired == now >= timeout

\* Instant::now().duration_since(timeout) > Duration::from_secs(0)
\* (lines 53, 60): duration_since saturates at zero
DurationSince(a, b) == IF a > b THEN a - b ELSE 0

WorkerExpired == DurationSince(now, timeout) > 0

Init ==
    /\ args_len \in ArgLens
    /\ timeout_secs = Unset
    /\ mpc = "args"
    /\ wpc = "unspawned"
    /\ S1 = 0
    /\ S2 = 0
    /\ m_local_val = Unset
    /\ w_local_val = Unset
    /\ m_seen_S2 = 0
    /\ w_seen_S1 = 0
    /\ now = 0
    /\ timeout = Unset
    /\ start = Unset
    /\ nanos = Unset
    /\ final_s1 = Unset
    /\ final_s2 = Unset
    /\ actual_ops = Unset
    /\ loop_exit = "none"
    /\ output = <<>>
    /\ exit_code = 0

\* ---- the clock ------------------------------------------------------------
\* Time passes between any two steps while the process runs.  Only
\* differences to the deadline matter, so the clock is followed from the
\* moment the deadline is computed.
Tick ==
    /\ ~Exited
    /\ timeout # Unset
    /\ now < timeout + MaxOvershoot
    /\ now' = now + 1
    /\ UNCHANGED <<args_len, timeout_secs, mpc, wpc, S1, S2, m_local_val,
                   w_local_val, m_seen_S2, w_seen_S1, timeout, start, nanos,
                   final_s1, final_s2, actual_ops, loop_exit, output,
                   exit_code>>

\* ---- fn main, lines 70-103: arguments, deadline, arming --------------------

\* lines 71-78: fewer than 4 args -> usage on stderr, process::exit(-1)
main_usage ==
    /\ mpc = "args"
    /\ args_len < 4
    /\ Emit("usage", 0, 0)
    /\ Exit(255)
    /\ UNCHANGED <<config, workerVars, counters, mainLocals, now>>

\* lines 80-82: parse the three numbers; expect() panics on a bad one
main_parse ==
    /\ mpc = "args"
    /\ ~(args_len < 4)
    /\ \E ok \in BOOLEAN :
         IF ok
         THEN /\ \E t \in 0 .. MaxTimeoutSecs : timeout_secs' = t
              /\ mpc' = "deadline"
              /\ UNCHANGED <<output, exit_code>>
         ELSE /\ Emit("panic", 0, 0)
              /\ Exit(PanicCode)
              /\ UNCHANGED timeout_secs
    /\ UNCHANGED <<args_len, timeout, workerVars, counters, mainLocals, now>>

\* line 85: timeout = Instant::now() + Duration::from_secs(timeout_secs)
main_deadline ==
    /\ mpc = "deadline"
    /\ timeout' = now + timeout_secs * NanosPerSec
    /\ mpc' = "bind_main"
    /\ UNCHANGED <<args_len, timeout_secs, workerVars, counters, mainLocals,
                   now, output, exit_code>>

\* lines 16-31, called at 87-89: sched_setaffinity on the process;
\* non-zero return -> message, process::exit(1)
set_main_thread_affinity ==
    /\ mpc = "bind_main"
    /\ \E ret \in AffinityRets :
         IF ret # 0
         THEN /\ Emit("affinity_main", ret, 0)
              /\ Exit(1)
         ELSE /\ mpc' = "spawn"
              /\ UNCHANGED <<output, exit_code>>
    /\ UNCHANGED <<config, workerVars, counters, mainLocals, now>>

\* lines 92-94: thread::spawn(run_thread(timeout)); the worker runs from here
main_spawn ==
    /\ mpc = "spawn"
    /\ wpc' = "w_init"
    /\ mpc' = "bind_worker"
    /\ UNCHANGED <<config, w_local_val, w_seen_S1, counters, mainLocals, now,
                   output, exit_code>>

\* set_pthread_affinity reporting a failure without process::exit(1)
set_pthread_affinity_no_exit ==
    /\ mpc = "bind_worker"
    /\ \E ret \in AffinityRets :
         /\ IF ret # 0
            THEN Emit("affinity_child", ret, 0)
            ELSE UNCHANGED output
         /\ mpc' = "start"
    /\ UNCHANGED <<config, workerVars, counters, mainLocals, now, exit_code>>

\* lines 33-47, called at 97-100: pthread_setaffinity_np on the live worker
set_pthread_affinity ==
    /\ mpc = "bind_worker"
    /\ \E ret \in AffinityRets :
         IF ret # 0
         THEN /\ Emit("affinity_child", ret, 0)
              /\ Exit(1)
         ELSE /\ mpc' = "start"
              /\ UNCHANGED <<output, exit_code>>
    /\ UNCHANGED <<config, workerVars, counters, mainLocals, now>>

\* line 102: start = Instant::now()
main_start ==
    /\ mpc = "start"
    /\ start' = now
    /\ mpc' = "load_local"
    /\ UNCHANGED <<config, workerVars, counters, m_local_val, m_seen_S2,
                   nanos, final_s1, final_s2, actual_ops, loop_exit, now,
                   output, exit_code>>

\* line 103: local_val = S1.load(Relaxed); S1 is written by this thread only
main_load_local ==
    /\ mpc = "load_local"
    /\ m_local_val' = S1
    /\ mpc' = "while"
    /\ UNCHANGED <<config, workerVars, counters, m_seen_S2, start, nanos,
                   final_s1, final_s2, actual_ops, loop_exit, now, output,
                   exit_code>>

\* ---- fn main, lines 106-121: the initiator loop ---------------------------

\* the loop condition testing the responder's counter
LoopCond_on_S2 == S2 < ITERATIONS

\* the loop condition off by one
LoopCond_off_by_one == S1 <= ITERATIONS

\* line 106: while S1.load(Relaxed) < ITERATIONS
LoopCond == S1 < ITERATIONS

main_while ==
    /\ mpc = "while"
    /\ IF LoopCond
       THEN /\ mpc' = "check_top"
            /\ UNCHANGED loop_exit
       ELSE /\ mpc' = "elapsed"
            /\ loop_exit' = "cond"
    /\ UNCHANGED <<config, workerVars, counters, m_local_val, m_seen_S2,
                   start, nanos, final_s1, final_s2, actual_ops, now, output,
                   exit_code>>

\* main_check_top without the deadline test at the top of a round
main_check_top_no_deadline ==
    /\ mpc = "check_top"
    /\ mpc' = "spin"
    /\ UNCHANGED <<config, workerVars, counters, m_local_val, m_seen_S2,
                   start, nanos, final_s1, final_s2, actual_ops, now, output,
                   loop_exit, exit_code>>

\* lines 107-110: deadline check at the top of a round; break
main_check_top ==
    /\ mpc = "check_top"
    /\ IF MainExpired
       THEN /\ Emit("timeout_main", 0, 0)
            /\ loop_exit' = "break"
            /\ mpc' = "elapsed"
       ELSE /\ mpc' = "spin"
            /\ UNCHANGED <<output, loop_exit>>
    /\ UNCHANGED <<config, workerVars, counters, m_local_val, m_seen_S2,
                   start, nanos, final_s1, final_s2, actual_ops, now,
                   exit_code>>

\* main_spin with the comparison turned around: never waits for the responder
main_spin_nowait ==
    /\ mpc = "spin"
    /\ \E v \in RelaxedLoad(m_seen_S2, S2) :
         /\ m_seen_S2' = v
         /\ mpc' = IF v > m_local_val THEN "check_spin" ELSE "inc"
    /\ UNCHANGED <<config, workerVars, counters, m_local_val, start, nanos,
                   final_s1, final_s2, actual_ops, loop_exit, now, output,
                   exit_code>>

\* line 113: while S2.load(Relaxed) != local_val
main_spin ==
    /\ mpc = "spin"
    /\ \E v \in RelaxedLoad(m_seen_S2, S2) :
         /\ m_seen_S2' = v
         /\ mpc' = IF v # m_local_val THEN "check_spin" ELSE "inc"
    /\ UNCHANGED <<config, workerVars, counters, m_local_val, start, nanos,
                   final_s1, final_s2, actual_ops, loop_exit, now, output,
                   exit_code>>

\* main_check_spin without the deadline test inside the busy spin
main_check_spin_no_deadline ==
    /\ mpc = "check_spin"
    /\ mpc' = "spin"
    /\ UNCHANGED <<config, workerVars, counters, m_local_val, m_seen_S2,
                   start, nanos, final_s1, final_s2, actual_ops, now, output,
                   loop_exit, exit_code>>

\* lines 114-117: deadline check inside the busy spin; return from main
main_check_spin ==
    /\ mpc = "check_spin"
    /\ IF MainExpired
       THEN /\ Emit("timeout_spin", 0, 0)
            /\ loop_exit' = "return"
            /\ Exit(0)
       ELSE /\ mpc' = "spin"
            /\ UNCHANGED <<output, loop_exit, exit_code>>
    /\ UNCHANGED <<config, workerVars, counters, m_local_val, m_seen_S2,
                   start, nanos, final_s1, final_s2, actual_ops, now>>

\* main_inc keeping the value fetch_add returns (the pre-increment value)
main_inc_stale_local ==
    /\ mpc = "inc"
    /\ S1' = S1 + 1
    /\ m_local_val' = S1
    /\ now' = now + FetchAddTicks
    /\ mpc' = "while"
    /\ UNCHANGED <<config, workerVars, S2, m_seen_S2, start, nanos, final_s1,
                   final_s2, actual_ops, loop_exit, output, exit_code>>

\* line 120: local_val = S1.fetch_add(1, SeqCst) + 1
main_inc ==
    /\ mpc = "inc"
    /\ S1' = S1 + 1
    /\ m_local_val' = S1 + 1
    /\ now' = now + FetchAddTicks
    /\ mpc' = "while"
    /\ UNCHANGED <<config, workerVars, S2, m_seen_S2, start, nanos, final_s1,
                   final_s2, actual_ops, loop_exit, output, exit_code>>

\* ---- fn main, lines 123-146: reporting -------------------------------------

\* lines 124-125: nanos = start.elapsed().as_nanos()
main_elapsed ==
    /\ mpc = "elapsed"
    /\ nanos' = now - start
    /\ mpc' = "load_final_s1"
    /\ UNCHANGED <<config, workerVars, counters, m_local_val, m_seen_S2,
                   start, final_s1, final_s2, actual_ops, loop_exit, now,
                   output, exit_code>>

\* main_load_final_s1 taking the configured target for the final count
main_load_final_s1_target ==
    /\ mpc = "load_final_s1"
    /\ final_s1' = ITERATIONS
    /\ mpc' = "load_final_s2"
    /\ UNCHANGED <<config, workerVars, counters, m_local_val, m_seen_S2,
                   start, nanos, final_s2, actual_ops, loop_exit, now, output,
                   exit_code>>

\* line 128: final_s1 = S1.load(SeqCst)
main_load_final_s1 ==
    /\ mpc = "load_final_s1"
    /\ final_s1' = S1
    /\ mpc' = "load_final_s2"
    /\ UNCHANGED <<config, workerVars, counters, m_local_val, m_seen_S2,
                   start, nanos, final_s2, actual_ops, loop_exit, now, output,
                   exit_code>>

\* line 129: final_s2 = S2.load(SeqCst); reads the latest SeqCst fetch_add
main_load_final_s2 ==
    /\ mpc = "load_final_s2"
    /\ final_s2' = S2
    /\ m_seen_S2' = S2
    /\ mpc' = "report"
    /\ UNCHANGED <<config, workerVars, counters, m_local_val, start, nanos,
                   final_s1, actual_ops, loop_exit, now, output, exit_code>>

\* actual_ops taken from the configured target
ActualOps_from_target(s1) == ITERATIONS * 2

\* line 132: actual_ops = final_s1 * 2
ActualOps(s1) == s1 * 2

\* line 135: ns_per_op = nanos / actual_ops
NsPerOp(n, ops) == n \div ops

\* ops_sec without the scaling to one second
OpsSec_unscaled(n, ops) == ops \div n

\* line 136: ops_sec = (actual_ops * 1_000_000_000) / nanos
OpsSec(n, ops) == (ops * NanosPerSec) \div n

\* main_report without the actual_ops > 0 guard: divides also by zero
main_report_unguarded ==
    /\ mpc = "report"
    /\ actual_ops' = ActualOps(final_s1)
    /\ IF ActualOps(final_s1) = 0 \/ nanos = 0
       THEN /\ Emit("panic", 0, 0)
            /\ Exit(PanicCode)
       ELSE /\ output' = output \o
                 << Line("duration", nanos, 0),
                    Line("ns_per_op",
                         NsPerOp(nanos, ActualOps(final_s1)), 0),
                    Line("ops_sec",
                         OpsSec(nanos, ActualOps(final_s1)), 0) >>
            /\ mpc' = "print_counters"
            /\ UNCHANGED exit_code
    /\ UNCHANGED <<config, workerVars, counters, m_local_val, m_seen_S2,
                   start, nanos, final_s1, final_s2, loop_exit, now>>

\* lines 132-143: rates when actual_ops > 0, the sentinel otherwise;
\* an integer division by zero panics
main_report ==
    /\ mpc = "report"
    /\ actual_ops' = ActualOps(final_s1)
    /\ IF ActualOps(final_s1) > 0
       THEN IF nanos = 0
            THEN /\ Emit("panic", 0, 0)
                 /\ Exit(PanicCode)
            ELSE /\ output' = output \o
                      << Line("duration", nanos, 0),
                         Line("ns_per_op",
                              NsPerOp(nanos, ActualOps(final_s1)), 0),
                         Line("ops_sec",
                              OpsSec(nanos, ActualOps(final_s1)), 0) >>
                 /\ mpc' = "print_counters"
                 /\ UNCHANGED exit_code
       ELSE /\ Emit("no_ops", 0, 0)
            /\ mpc' = "print_counters"
            /\ UNCHANGED exit_code
    /\ UNCHANGED <<config, workerVars, counters, m_local_val, m_seen_S2,
                   start, nanos, final_s1, final_s2, loop_exit, now>>

\* lines 145-146: println!("s1 = {}, s2 = {}"), then main returns
main_print_counters ==
    /\ mpc = "print_counters"
    /\ Emit("s1_s2", final_s1, final_s2)
    /\ Exit(0)
    /\ UNCHANGED <<config, workerVars, counters, mainLocals, now>>

\* ---- fn run_thread, lines 49-68: the responder -----------------------------

\* line 50: local_val = S2.load(Relaxed); S2 is written by this thread only
worker_load_local ==
    /\ wpc = "w_init"
    /\ ~Exited
    /\ w_local_val' = S2
    /\ wpc' = "w_check_top"
    /\ UNCHANGED <<config, mpc, counters, mainLocals, w_seen_S1, now, output,
                   exit_code>>

\* worker_check_top without the deadline test at the top of the loop
worker_check_top_no_deadline ==
    /\ wpc = "w_check_top"
    /\ ~Exited
    /\ wpc' = "w_spin"
    /\ UNCHANGED <<config, mpc, counters, mainLocals, w_local_val, w_seen_S1,
                   now, output, exit_code>>

\* lines 53-56: deadline check at the top of the loop; break
worker_check_top ==
    /\ wpc = "w_check_top"
    /\ ~Exited
    /\ IF WorkerExpired
       THEN /\ Emit("timeout_worker", 0, 0)
            /\ wpc' = "w_done"
       ELSE /\ wpc' = "w_spin"
            /\ UNCHANGED output
    /\ UNCHANGED <<config, mpc, counters, mainLocals, w_local_val, w_seen_S1,
                   now, exit_code>>

\* worker_spin with the comparison inverted: proceeds while S1 is unchanged
worker_spin_inverted ==
    /\ wpc = "w_spin"
    /\ ~Exited
    /\ \E v \in RelaxedLoad(w_seen_S1, S1) :
         /\ w_seen_S1' = v
         /\ wpc' = IF w_local_val # v THEN "w_check_spin" ELSE "w_inc"
    /\ UNCHANGED <<config, mpc, counters, mainLocals, w_local_val, now,
                   output, exit_code>>

\* line 59: while local_val == S1.load(Relaxed)
worker_spin ==
    /\ wpc = "w_spin"
    /\ ~Exited
    /\ \E v \in RelaxedLoad(w_seen_S1, S1) :
         /\ w_seen_S1' = v
         /\ wpc' = IF w_local_val = v THEN "w_check_spin" ELSE "w_inc"
    /\ UNCHANGED <<config, mpc, counters, mainLocals, w_local_val, now,
                   output, exit_code>>

\* lines 60-62: deadline check inside the wait; return
worker_check_spin ==
    /\ wpc = "w_check_spin"
    /\ ~Exited
    /\ wpc' = IF WorkerExpired THEN "w_done" ELSE "w_spin"
    /\ UNCHANGED <<config, mpc, counters, mainLocals, w_local_val, w_seen_S1,
                   now, output, exit_code>>

\* worker_inc keeping the value fetch_add returns (the pre-increment value)
worker_inc_stale_local ==
    /\ wpc = "w_inc"
    /\ ~Exited
    /\ S2' = S2 + 1
    /\ w_local_val' = S2
    /\ now' = now + FetchAddTicks
    /\ wpc' = "w_check_top"
    /\ UNCHANGED <<config, mpc, S1, mainLocals, w_seen_S1, output, exit_code>>

\* worker_inc adding 2 instead of 1
worker_inc_by_two ==
    /\ wpc = "w_inc"
    /\ ~Exited
    /\ S2' = S2 + 2
    /\ w_local_val' = S2 + 2
    /\ now' = now + FetchAddTicks
    /\ wpc' = "w_check_top"
    /\ UNCHANGED <<config, mpc, S1, mainLocals, w_seen_S1, output, exit_code>>

\* worker_inc incrementing the initiator's counter
worker_inc_wrong_counter ==
    /\ wpc = "w_inc"
    /\ ~Exited
    /\ S1' = S1 + 1
    /\ w_local_val' = S1 + 1
    /\ now' = now + FetchAddTicks
    /\ wpc' = "w_check_top"
    /\ UNCHANGED <<config, mpc, S2, mainLocals, w_seen_S1, output, exit_code>>

\* line 66: local_val = S2.fetch_add(1, SeqCst) + 1
worker_inc ==
    /\ wpc = "w_inc"
    /\ ~Exited
    /\ S2' = S2 + 1
    /\ w_local_val' = S2 + 1
    /\ now' = now + FetchAddTicks
    /\ wpc' = "w_check_top"
    /\ UNCHANGED <<config, mpc, S1, mainLocals, w_seen_S1, output, exit_code>>

\* ---- the program -----------------------------------------------------------

MainStep ==
    \/ main_usage
    \/ main_parse
    \/ main_deadline
    \/ set_main_thread_affinity
    \/ main_spawn
    \/ set_pthread_affinity
    \/ main_start
    \/ main_load_local
    \/ main_while
    \/ main_check_top
    \/ main_spin
    \/ main_check_spin
    \/ main_inc
    \/ main_elapsed
    \/ main_load_final_s1
    \/ main_load_final_s2
    \/ main_report
    \/ main_print_counters

run_thread ==
    \/ worker_load_local
    \/ worker_check_top
    \/ worker_spin
    \/ worker_check_spin
    \/ worker_inc

Next == MainStep \/ run_thread \/ Tick

Spec == Init /\ [][Next]_vars

\* Scheduling: both threads are pinned and runnable, so each keeps taking
\* steps; a store to an atomic becomes visible to the other thread's
\* repeated Relaxed loads in finite time.
main_spin_fresh == main_spin /\ m_seen_S2' = S2

worker_spin_fresh == worker_spin /\ w_seen_S1' = S1

FairSpec ==
    /\ Init /\ [][Next]_vars
    /\ WF_vars(MainStep)
    /\ WF_vars(run_thread)
    /\ SF_vars(main_spin_fresh)
    /\ SF_vars(worker_spin_fresh)

\* ---- vocabulary of the properties ------------------------------------------

HasLine(tag) == \E i \in DOMAIN output : output[i].tag = tag

CountLines(tag) == Cardinality({i \in DOMAIN output : output[i].tag = tag})

\* main is inside the while loop of lines 106-121
LoopPcs == {"while", "check_top", "spin", "check_spin", "inc"}

\* main has not yet bound both threads
ArmingPcs == {"args", "deadline", "bind_main", "spawn", "bind_worker"}

\* run_thread is inside its loop
WorkerLoopPcs == {"w_check_top", "w_spin", "w_check_spin", "w_inc"}

\* C1: in every reachable state 0 <= S1 - S2 <= 1.
C1_CounterInvariant == 0 <= S1 - S2 /\ S1 - S2 <= 1

\* S1 leads by one in a later round, the responder still polling
C1_Witness == S1 = S2 + 1 /\ S1 >= 2 /\ wpc = "w_spin" /\ mpc = "spin"

\* C2: both counters start at 0 and every step leaves each counter
\* unchanged or larger by exactly 1.
C2_Monotone ==
    /\ S1 = 0 /\ S2 = 0
    /\ [][/\ S1' \in {S1, S1 + 1}
          /\ S2' \in {S2, S2 + 1}]_vars

\* both threads have incremented more than once
C2_Witness == S1 >= 2 /\ S2 >= 2

\* C3: in deadline mode a thread that keeps being scheduled while the clock
\* advances past the deadline leaves its loop, whatever the other thread
\* does: fairness is assumed for the clock and for that one thread only.
C3_NoUnboundedHang ==
    /\ (WF_vars(Tick) /\ WF_vars(MainStep))
          => [](mpc \in LoopPcs => <>(mpc \notin LoopPcs))
    /\ (WF_vars(Tick) /\ WF_vars(run_thread))
          => [](wpc \in WorkerLoopPcs
                   => <>(wpc \notin WorkerLoopPcs \/ Exited))

\* main left its busy spin on the deadline although the worker never ran
C3_Witness == loop_exit = "return" /\ wpc = "w_init" /\ S1 = 1 /\ S2 = 0

\* C4: every way main leaves the handshake loop leads to the report before
\* the process exits: metrics are computed and the final S1/S2 line is
\* emitted exactly once.
C4_ReportBeforeExit ==
    (Exited /\ loop_exit # "none")
        => /\ actual_ops # Unset
           /\ CountLines("s1_s2") = 1

\* C5: main leaves the loop through the loop condition only with
\* S1 = ITERATIONS; every other exit follows an observed deadline.
C5_CompletedOnlyAtTarget ==
    /\ loop_exit = "cond" => S1 = ITERATIONS
    /\ loop_exit = "break" => MainExpired /\ HasLine("timeout_main")
    /\ loop_exit = "return" => MainExpired /\ HasLine("timeout_spin")
    /\ loop_exit = "none" => mpc \in ArmingPcs \cup LoopPcs
                               \cup {"start", "load_local", "exited"}
    /\ (loop_exit = "none" /\ Exited) => exit_code # 0

\* the target was hit before a deadline that had been set in the future
C5_Witness == loop_exit = "cond" /\ S1 = ITERATIONS /\ ~MainExpired

\* arguments missing or unparsable, or an affinity call failed
SetupFailed == Exited /\ loop_exit = "none"

\* the deadline is reached while main has not yet left its loop
ExpiredDuringRun ==
    /\ timeout # Unset
    /\ MainExpired
    /\ mpc \in ArmingPcs \cup {"start", "load_local"} \cup LoopPcs

\* main has exited after reporting a run that hit the target
CompletedReport ==
    /\ Exited /\ exit_code = 0
    /\ loop_exit = "cond"
    /\ S1 = ITERATIONS
    /\ actual_ops = 2 * ITERATIONS
    /\ HasLine("ops_sec")
    /\ CountLines("s1_s2") = 1

\* C6: under fair scheduling, if arming succeeds and the deadline does not
\* expire during the run, S1 reaches ITERATIONS, main terminates and the
\* reported completed_ops is 2 x ITERATIONS.
C6_Progress ==
    ([]~SetupFailed /\ []~ExpiredDuringRun) => <>CompletedReport

\* a completed run reported before the deadline
C6_Witness == CompletedReport /\ ~MainExpired

\* main is between the loop and the end of the report
ReportPcs == {"elapsed", "load_final_s1", "load_final_s2", "report",
              "print_counters"}

\* C7: whenever a report is produced, completed_ops is exactly twice the
\* value S1 held when main left its loop (the result of its last fetch_add,
\* kept in local_val), not the configured target, and S1 has not changed
\* since.
C7_OpsFromActualCount ==
    /\ mpc \in ReportPcs => S1 = m_local_val
    /\ actual_ops # Unset
          => /\ S1 = m_local_val
             /\ final_s1 = m_local_val
             /\ actual_ops = 2 * m_local_val
    /\ \A i \in DOMAIN output :
          output[i].tag = "s1_s2" => output[i].a = m_local_val

\* a timed-out run reporting one round, fewer than the target
C7_Witness ==
    /\ Exited /\ loop_exit = "break"
    /\ actual_ops = 2 /\ S1 = 1 /\ S1 < ITERATIONS
    /\ HasLine("s1_s2")

\* C8: in the report a rate is computed if and only if completed_ops > 0;
\* with completed_ops = 0 the sentinel is emitted, nothing is divided, the
\* final S1/S2 line is still emitted and the exit status is 0.
C8_SentinelIffZeroOps ==
    (actual_ops # Unset)
        => /\ actual_ops > 0 <=> HasLine("ns_per_op")
           /\ actual_ops > 0 <=> HasLine("ops_sec")
           /\ actual_ops = 0 <=> HasLine("no_ops")
           /\ actual_ops = 0 => ~HasLine("panic")
           /\ (actual_ops = 0 /\ Exited)
                 => exit_code = 0 /\ CountLines("s1_s2") = 1

\* a run that reported zero operations and exited normally
C8_Witness ==
    /\ Exited /\ exit_code = 0
    /\ actual_ops = 0 /\ HasLine("no_ops") /\ HasLine("s1_s2")

\* what a run with timeout = 0 ends in
C9_Outcome ==
    /\ Exited /\ exit_code = 0
    /\ final_s1 < ITERATIONS
    /\ actual_ops <= 2
    /\ actual_ops = 0
          => /\ HasLine("no_ops")
             /\ ~HasLine("ns_per_op") /\ ~HasLine("ops_sec")
             /\ ~HasLine("panic")
    /\ CountLines("s1_s2") = 1

\* C9: with timeout = 0 (the deadline is already reached when main enters
\* its loop) main terminates without reaching the target, completed_ops is
\* at most one round, and if it is 0 the sentinel is emitted and nothing is
\* divided.
C9_PastDeadline ==
    [](timeout_secs = 0 /\ mpc = "start" => <>C9_Outcome)

\* a timeout = 0 run that ended with the sentinel while the worker spun
C9_Witness ==
    /\ timeout_secs = 0 /\ C9_Outcome
    /\ actual_ops = 0 /\ loop_exit = "break" /\ wpc = "w_spin"

\* C10: a failed affinity call ends the process with status 1, both
\* counters still 0, no timing started and nothing reported; increments and
\* the start of the measurement happen only after both calls succeeded.
C10_NoTimingUnpinned ==
    /\ (HasLine("affinity_main") \/ HasLine("affinity_child"))
          => /\ Exited /\ exit_code = 1
             /\ S1 = 0 /\ S2 = 0
             /\ start = Unset /\ actual_ops = Unset
             /\ ~HasLine("s1_s2") /\ ~HasLine("duration")
             /\ ~HasLine("no_ops")
    /\ (Exited /\ exit_code = 1)
          => HasLine("affinity_main") \/ HasLine("affinity_child")
    /\ (S1 > 0 \/ S2 > 0 \/ start # Unset)
          => /\ mpc \notin ArmingPcs
             /\ ~SetupFailed

\* binding the worker failed while the worker was already polling
C10_Witness ==
    /\ Exited /\ exit_code = 1 /\ HasLine("affinity_child")
    /\ wpc = "w_check_spin"

\* C11: single-writer discipline: S1 changes only in main's fetch_add step
\* and S2 only in the worker's; every step of main leaves S2 unchanged,
\* every step of the worker leaves S1 unchanged, and polling, deadline
\* checks, reporting and the clock leave both unchanged.
C11_SingleWriter ==
    [][/\ MainStep => S2' = S2
       /\ run_thread => S1' = S1
       /\ S1' # S1 => mpc = "inc" /\ mpc' = "while" /\ wpc' = wpc
       /\ S2' # S2 => wpc = "w_inc" /\ wpc' = "w_check_top" /\ mpc' = mpc
       /\ (mpc # "inc" /\ wpc # "w_inc") => S1' = S1 /\ S2' = S2]_vars

\* both threads have written their counter and main has reported
C11_Witness == Exited /\ HasLine("s1_s2") /\ S1 = 2 /\ S2 = 2

\* C12: invoked with main_core and worker_core only (args.len() = 3), the
\* program arms both threads, runs the handshake with no deadline until
\* ITERATIONS rounds have completed, and then reports.
C12_FixedModeSelectable ==
    (args_len = 3 /\ Exited)
        => /\ ~HasLine("usage")
           /\ loop_exit = "cond"
           /\ S1 = ITERATIONS
           /\ CountLines("s1_s2") = 1

\* the value printed on the first line with the given tag
Printed(tag) ==
    output[CHOOSE i \in DOMAIN output : output[i].tag = tag].a

\* C13: whenever the non-sentinel report is produced, ns_per_op and
\* ops_sec as computed by the program are both strictly positive and
\* neither division is by zero.
C13_RatesPositive ==
    (actual_ops # Unset /\ actual_ops > 0)
        => /\ nanos > 0 /\ ~HasLine("panic")
           /\ HasLine("ns_per_op") /\ Printed("ns_per_op") > 0
           /\ HasLine("ops_sec") /\ Printed("ops_sec") > 0

\* C13 as amended: whenever the non-sentinel report is produced, neither
\* division is by zero and ns_per_op is strictly positive; ops_sec is
\* strictly positive exactly when the run averaged at least one operation
\* per second (elapsed <= completed_ops x one second) and is 0 otherwise.
C13_RatesAmended ==
    (actual_ops # Unset /\ actual_ops > 0)
        => /\ nanos > 0 /\ ~HasLine("panic")
           /\ HasLine("ns_per_op") /\ Printed("ns_per_op") > 0
           /\ HasLine("ops_sec")
           /\ Printed("ops_sec") > 0 <=> nanos <= actual_ops * NanosPerSec
           /\ Printed("ops_sec") >= 0

\* a report of a run slower than one operation per second: ops_sec is 0
C13_Witness ==
    /\ Exited /\ exit_code = 0 /\ actual_ops > 0
    /\ HasLine("ops_sec") /\ Printed("ops_sec") = 0
    /\ Printed("ns_per_op") > 0

\* C14: strict alternation: main increments S1 only in a state where
\* S2 = S1, the worker increments S2 only in a state where S1 = S2 + 1, each
\* by exactly 1 and never both in one step; so the increments go
\* S1, S2, S1, S2, ... starting with S1.
C14_StrictAlternation ==
    [][/\ S1' # S1 => S2 = S1 /\ S1' = S1 + 1 /\ S2' = S2
       /\ S2' # S2 => S1 = S2 + 1 /\ S2' = S2 + 1 /\ S1' = S1]_vars

\* the responder is about to take its turn in the second round
C14_Witness == S1 = 2 /\ S2 = 1 /\ wpc = "w_inc" /\ mpc = "spin"

\* C15: while main polls S2 its local_val equals S1 (0 at first, then the
\* result of its last fetch_add), and while the worker polls S1 its
\* local_val equals S2; so the worker's wait on S1 # local_val is a wait on
\* S1 # S2.
C15_LocalsInSync ==
    /\ mpc \in {"spin", "check_spin", "inc"} => m_local_val = S1
    /\ wpc \in {"w_spin", "w_check_spin", "w_inc"} => w_local_val = S2
    /\ wpc \in {"w_spin", "w_check_spin"}
          => (S1 # w_local_val <=> S1 # S2)

\* both threads polling in a later round with their locals set by fetch_add
C15_Witness ==
    /\ mpc = "check_spin" /\ wpc = "w_check_spin"
    /\ m_local_val = 2 /\ w_local_val = 2

\* the clock is past the deadline
PastDeadline == timeout # Unset /\ now > timeout

\* C16: once the clock is past the deadline main performs at most one
\* further S1 increment and the worker at most one further S2 increment;
\* such an increment comes only from a thread that passed its last deadline
\* check before expiry (it is polling or about to increment), and a thread
\* that has observed expiry increments no more.
C16_BoundedOvershoot ==
    /\ \A k \in 0 .. ITERATIONS :
          /\ [](PastDeadline /\ S1 = k => [](S1 <= k + 1))
          /\ [](PastDeadline /\ S2 = k => [](S2 <= k + 1))
          /\ [](PastDeadline /\ S1 = k /\ mpc \notin {"spin", "inc"}
                   => [](S1 = k))
          /\ [](PastDeadline /\ S2 = k /\ wpc \notin {"w_spin", "w_inc"}
                   => [](S2 = k))
    /\ [][loop_exit # "none" => S1' = S1]_vars
    /\ [][wpc = "w_done" => S2' = S2]_vars

\* main made its first increment when the clock was already past the
\* deadline (the clock is beyond what Tick alone reaches, the worker has not
\* run), then observed the deadline at the top of the next round
C16_Witness ==
    /\ now > timeout + MaxOvershoot /\ wpc = "w_init"
    /\ S1 = 1 /\ loop_exit = "break" /\ timeout_secs > 0

\* C17: the pair read by two separate loads (S1 first, the worker possibly
\* still running) satisfies 0 <= final_s1 - final_s2 <= 1, also as printed,
\* so completed_ops = 2 x final_s1 exceeds final_s1 + final_s2 by at most 1.
C17_ReportedPairConsistent ==
    /\ final_s2 # Unset
          => /\ 0 <= final_s1 - final_s2
             /\ final_s1 - final_s2 <= 1
    /\ actual_ops # Unset
          => /\ actual_ops - (final_s1 + final_s2) >= 0
             /\ actual_ops - (final_s1 + final_s2) <= 1
    /\ \A i \in DOMAIN output :
          output[i].tag = "s1_s2"
             => /\ output[i].a = final_s1 /\ output[i].b = final_s2
                /\ 0 <= output[i].a - output[i].b
                /\ output[i].a - output[i].b <= 1

\* final_s1 has been read, the worker is about to increment S2 before
\* final_s2 is read
C17_Witness ==
    /\ mpc = "load_final_s2" /\ wpc = "w_inc"
    /\ final_s1 = 2 /\ S2 = 1

\* C18: in every reachable state S2 <= S1 <= ITERATIONS, and the reported
\* completed_ops is at most 2 x ITERATIONS.
C18_NeverPastTarget ==
    /\ S2 <= S1
    /\ S1 <= ITERATIONS
    /\ actual_ops # Unset => actual_ops <= 2 * ITERATIONS

\* the target is reached on both counters while the worker keeps polling
C18_Witness ==
    /\ S1 = ITERATIONS /\ S2 = ITERATIONS
    /\ wpc = "w_check_spin" /\ mpc = "elapsed"

====
